---- MODULE Spec2Model ----
(***************************************************************************)
(* Model of package alb: the adapter that runs an http.Handler behind an   *)
(* AWS ALB Lambda target.  Two implementations of lambdaHandler.Run are    *)
(* in the sources: src/alb.go, which unescapes every query value and       *)
(* re-encodes the query through url.Values, and src/unnamed/part_000,      *)
(* which concatenates the escaped path and query and parses the result     *)
(* once (buildURL).  Both are modelled; the variable impl says which one   *)
(* an invocation runs.                                                     *)
(*                                                                         *)
(* Go strings and byte slices whose contents the code inspects are         *)
(* sequences of bytes (0..255).  Strings the code only copies (method,     *)
(* header values, error kinds) are TLA+ strings.                           *)
(***************************************************************************)
EXTENDS Integers, Sequences, FiniteSets, TLC

(***************************************************************************)
(* Bytes and strings                                                       *)
(***************************************************************************)

\* The byte of an ASCII character used by the model's inputs.
Ord(c) ==
  CASE c = "/" -> 47 [] c = "?" -> 63 [] c = "%" -> 37 [] c = "&" -> 38
    [] c = "=" -> 61 [] c = "+" -> 43 [] c = "-" -> 45 [] c = " " -> 32
    [] c = "!" -> 33 [] c = "\n" -> 10 [] c = "#" -> 35 [] c = "," -> 44
    [] c = "a" -> 97 [] c = "b" -> 98 [] c = "c" -> 99 [] c = "d" -> 100
    [] c = "e" -> 101 [] c = "f" -> 102 [] c = "g" -> 103 [] c = "h" -> 104
    [] c = "i" -> 105 [] c = "n" -> 110 [] c = "o" -> 111 [] c = "p" -> 112
    [] c = "r" -> 114 [] c = "s" -> 115 [] c = "t" -> 116 [] c = "x" -> 120
    [] c = "y" -> 121
    [] c = "A" -> 65 [] c = "C" -> 67 [] c = "E" -> 69 [] c = "H" -> 72
    [] c = "Q" -> 81 [] c = "T" -> 84 [] c = "U" -> 85

\* A Go string literal, written as a tuple of characters.
Str(cs) == [i \in 1..Len(cs) |-> Ord(cs[i])]

\* s[from:] of Go, with from counted from 1.
From(s, from) == SubSeq(s, from, Len(s))

\* strings.IndexByte, counted from 1; 0 when c does not occur.
IndexByte(s, c) ==
  IF \E i \in 1..Len(s) : s[i] = c
  THEN CHOOSE i \in 1..Len(s) : s[i] = c /\ \A j \in 1..(i - 1) : s[j] # c
  ELSE 0

\* Go's < on strings: bytewise lexicographic order.
RECURSIVE StrLess(_, _)
StrLess(a, b) ==
  IF Len(b) = 0 THEN FALSE
  ELSE IF Len(a) = 0 THEN TRUE
  ELSE IF a[1] # b[1] THEN a[1] < b[1]
  ELSE StrLess(From(a, 2), From(b, 2))

\* All sequences over alphabet A of length at most n.
RECURSIVE SeqsUpTo(_, _)
SeqsUpTo(A, n) ==
  IF n = 0 THEN {<<>>}
  ELSE LET shorter == SeqsUpTo(A, n - 1)
       IN shorter \cup {Append(s, a) : s \in {t \in shorter : Len(t) = n - 1}, a \in A}

\* The orders in which Go may iterate over a map with key set K.
Perms(K) ==
  {p \in [1..Cardinality(K) -> K] : \A i, j \in 1..Cardinality(K) : p[i] = p[j] => i = j}

\* A nil pointer; a non-nil pointer to v is <<v>>.
Nil == <<>>

(***************************************************************************)
(* unicode/utf8                                                            *)
(***************************************************************************)

\* utf8.first: the number of bytes of the sequence a lead byte starts; 0 is
\* the table's xx (as), an invalid lead byte.
firstSize(b) ==
  IF b < 128 THEN 1
  ELSE IF b < 194 THEN 0
  ELSE IF b < 224 THEN 2
  ELSE IF b < 240 THEN 3
  ELSE IF b < 245 THEN 4
  ELSE 0

\* utf8.acceptRanges: the range the second byte of a sequence must lie in.
acceptRange(b) ==
  IF b = 224 THEN [lo |-> 160, hi |-> 191]
  ELSE IF b = 237 THEN [lo |-> 128, hi |-> 159]
  ELSE IF b = 240 THEN [lo |-> 144, hi |-> 191]
  ELSE IF b = 244 THEN [lo |-> 128, hi |-> 143]
  ELSE [lo |-> 128, hi |-> 191]

\* utf8.Valid(p), scanning from index i.
RECURSIVE ValidFrom(_, _)
ValidFrom(p, i) ==
  IF i > Len(p) THEN TRUE
  ELSE IF p[i] < 128 THEN ValidFrom(p, i + 1)
  ELSE LET size == firstSize(p[i])
           accept == acceptRange(p[i])
       IN  IF size = 0 THEN FALSE
           ELSE IF i + size - 1 > Len(p) THEN FALSE
           ELSE IF p[i + 1] < accept.lo \/ accept.hi < p[i + 1] THEN FALSE
           ELSE IF size = 2 THEN ValidFrom(p, i + 2)
           ELSE IF p[i + 2] < 128 \/ 191 < p[i + 2] THEN FALSE
           ELSE IF size = 3 THEN ValidFrom(p, i + 3)
           ELSE IF p[i + 3] < 128 \/ 191 < p[i + 3] THEN FALSE
           ELSE ValidFrom(p, i + 4)

utf8Valid(p) == ValidFrom(p, 1)

(***************************************************************************)
(* encoding/base64, StdEncoding                                            *)
(***************************************************************************)

\* base64.encodeStd: the character of a 6-bit value.
encodeStd(v) ==
  IF v < 26 THEN 65 + v
  ELSE IF v < 52 THEN 71 + v
  ELSE IF v < 62 THEN v - 4
  ELSE IF v = 62 THEN 43
  ELSE 47

\* Encoding.decodeMap: the 6-bit value of a character, 255 for a character
\* outside the alphabet.
decodeMap(c) ==
  IF 65 <= c /\ c <= 90 THEN c - 65
  ELSE IF 97 <= c /\ c <= 122 THEN c - 71
  ELSE IF 48 <= c /\ c <= 57 THEN c + 4
  ELSE IF c = 43 THEN 62
  ELSE IF c = 47 THEN 63
  ELSE 255

\* EncodeFrom without the '=' padding (what RawStdEncoding would write).
RECURSIVE EncodeFromUnpadded(_, _)
EncodeFromUnpadded(src, si) ==
  LET remain == Len(src) - si + 1
  IN  IF remain <= 0 THEN <<>>
      ELSE IF remain >= 3 THEN
        LET val == src[si] * 65536 + src[si + 1] * 256 + src[si + 2]
        IN  << encodeStd((val \div 262144) % 64), encodeStd((val \div 4096) % 64),
               encodeStd((val \div 64) % 64), encodeStd(val % 64) >>
            \o EncodeFromUnpadded(src, si + 3)
      ELSE
        LET val == src[si] * 65536 + (IF remain = 2 THEN src[si + 1] * 256 ELSE 0)
        IN  << encodeStd((val \div 262144) % 64), encodeStd((val \div 4096) % 64) >>
            \o (IF remain = 2 THEN <<encodeStd((val \div 64) % 64)>> ELSE <<>>)

\* StdEncoding.EncodeToString(src), encoding from index si.
RECURSIVE EncodeFrom(_, _)
EncodeFrom(src, si) ==
  LET remain == Len(src) - si + 1
  IN  IF remain <= 0 THEN <<>>
      ELSE IF remain >= 3 THEN
        LET val == src[si] * 65536 + src[si + 1] * 256 + src[si + 2]
        IN  << encodeStd((val \div 262144) % 64), encodeStd((val \div 4096) % 64),
               encodeStd((val \div 64) % 64), encodeStd(val % 64) >>
            \o EncodeFrom(src, si + 3)
      ELSE
        LET val == src[si] * 65536 + (IF remain = 2 THEN src[si + 1] * 256 ELSE 0)
        IN  << encodeStd((val \div 262144) % 64), encodeStd((val \div 4096) % 64),
               IF remain = 2 THEN encodeStd((val \div 64) % 64) ELSE 61,
               61 >>

EncodeToString(src) == EncodeFrom(src, 1)

\* The bytes of one quantum: dbuf holds dlen 6-bit values (2, 3 or 4).
quantumBytes(dbuf, dlen) ==
  LET d(j) == IF j <= Len(dbuf) THEN dbuf[j] ELSE 0
      val == d(1) * 262144 + d(2) * 4096 + d(3) * 64 + d(4)
      b == << (val \div 65536) % 256, (val \div 256) % 256, val % 256 >>
  IN  SubSeq(b, 1, dlen - 1)

\* The index of the first character from si on that is neither \n nor \r.
RECURSIVE skipNewlines(_, _)
skipNewlines(src, si) ==
  IF si <= Len(src) /\ src[si] \in {10, 13} THEN skipNewlines(src, si + 1) ELSE si

CorruptInput == [err |-> "base64.CorruptInputError", bytes |-> <<>>]

\* Encoding.Decode with decodeQuantum: si is the next character to read,
\* dbuf the values of the current quantum, dst the bytes decoded so far.
RECURSIVE decodeQuantum(_, _, _, _)
decodeQuantum(src, si, dbuf, dst) ==
  IF si > Len(src) THEN
    IF Len(dbuf) = 0 THEN [err |-> "", bytes |-> dst] ELSE CorruptInput
  ELSE
    LET in == src[si]
        out == decodeMap(in)
        j == Len(dbuf)
    IN  IF out # 255 THEN
          IF j = 3
          THEN decodeQuantum(src, si + 1, <<>>, dst \o quantumBytes(Append(dbuf, out), 4))
          ELSE decodeQuantum(src, si + 1, Append(dbuf, out), dst)
        ELSE IF in \in {10, 13} THEN decodeQuantum(src, si + 1, dbuf, dst)
        ELSE IF in # 61 THEN CorruptInput
        ELSE IF j < 2 THEN CorruptInput
        ELSE
          LET s1 == skipNewlines(src, si + 1)
              padOk == j = 3 \/ (s1 <= Len(src) /\ src[s1] = 61)
              s2 == IF j = 3 THEN si + 1 ELSE s1 + 1
              s3 == skipNewlines(src, s2)
          IN  IF ~padOk THEN CorruptInput
              ELSE IF s3 <= Len(src) THEN CorruptInput
              ELSE [err |-> "", bytes |-> dst \o quantumBytes(dbuf, j)]

\* StdEncoding.DecodeString(s): err is "" when the input decodes.
DecodeString(s) == decodeQuantum(s, 1, <<>>, <<>>)

(***************************************************************************)
(* net/url.  The model's inputs hold no ':', '@' or '[', so a URL has no   *)
(* scheme, user info, port or IPv6 literal.                                *)
(***************************************************************************)

ishex(c) == (48 <= c /\ c <= 57) \/ (97 <= c /\ c <= 102) \/ (65 <= c /\ c <= 70)

unhex(c) ==
  IF 48 <= c /\ c <= 57 THEN c - 48
  ELSE IF 97 <= c /\ c <= 102 THEN c - 97 + 10
  ELSE IF 65 <= c /\ c <= 70 THEN c - 65 + 10
  ELSE 0

\* The digits of escape's upperhex table.
upperhex(v) == IF v < 10 THEN 48 + v ELSE 55 + v

isAlnum(c) == (97 <= c /\ c <= 122) \/ (65 <= c /\ c <= 90) \/ (48 <= c /\ c <= 57)

\* url.shouldEscape(c, mode).
shouldEscape(c, mode) ==
  IF isAlnum(c) THEN FALSE
  ELSE IF mode = "encodeHost" /\ c \in {33, 36, 38, 39, 40, 41, 42, 43, 44, 59, 61, 58, 91, 93, 60, 62, 34}
  THEN FALSE
  ELSE IF c \in {45, 95, 46, 126} THEN FALSE
  ELSE IF c \in {36, 38, 43, 44, 47, 58, 59, 61, 63, 64} /\ mode = "encodePath" THEN c = 63
  ELSE IF c \in {36, 38, 43, 44, 47, 58, 59, 61, 63, 64} /\ mode = "encodeQueryComponent" THEN TRUE
  ELSE IF c \in {36, 38, 43, 44, 47, 58, 59, 61, 63, 64} /\ mode = "encodeFragment" THEN FALSE
  ELSE IF mode = "encodeFragment" /\ c \in {33, 40, 41, 42} THEN FALSE
  ELSE TRUE

EscapeError(s) == [type |-> "url.EscapeError", text |-> SubSeq(s, 1, IF Len(s) > 3 THEN 3 ELSE Len(s))]

InvalidHostError(s) == [type |-> "url.InvalidHostError", text |-> s]

\* The first loop of url.unescape(s, mode): the error of the first bad escape
\* or bad host byte from index i on, Nil when there is none.
RECURSIVE unescapeCheck(_, _, _)
unescapeCheck(s, i, mode) ==
  IF i > Len(s) THEN Nil
  ELSE IF s[i] = 37 THEN
    IF i + 2 > Len(s) \/ ~ishex(s[i + 1]) \/ ~ishex(s[i + 2])
    THEN <<EscapeError(From(s, i))>>
    ELSE IF mode = "encodeHost" /\ unhex(s[i + 1]) < 8 /\ SubSeq(s, i, i + 2) # <<37, 50, 53>>
    THEN <<EscapeError(SubSeq(s, i, i + 2))>>
    ELSE unescapeCheck(s, i + 3, mode)
  ELSE IF mode = "encodeHost" /\ s[i] < 128 /\ shouldEscape(s[i], "encodeHost")
  THEN <<InvalidHostError(<<s[i]>>)>>
  ELSE unescapeCheck(s, i + 1, mode)

\* The second loop of url.unescape(s, mode), on a string the first accepted.
RECURSIVE unescapeBytes(_, _, _)
unescapeBytes(s, i, mode) ==
  IF i > Len(s) THEN <<>>
  ELSE IF s[i] = 37
  THEN <<unhex(s[i + 1]) * 16 + unhex(s[i + 2])>> \o unescapeBytes(s, i + 3, mode)
  ELSE IF s[i] = 43
  THEN <<IF mode = "encodeQueryComponent" THEN 32 ELSE 43>> \o unescapeBytes(s, i + 1, mode)
  ELSE <<s[i]>> \o unescapeBytes(s, i + 1, mode)

\* url.unescape(s, mode): err is Nil or a pointer to the error.
unescape(s, mode) ==
  LET e == unescapeCheck(s, 1, mode)
  IN  IF e # Nil THEN [err |-> e, s |-> <<>>]
      ELSE [err |-> Nil, s |-> unescapeBytes(s, 1, mode)]

\* url.escape(s, mode).
RECURSIVE escape(_, _)
escape(s, mode) ==
  IF Len(s) = 0 THEN <<>>
  ELSE LET c == s[1]
       IN  (IF shouldEscape(c, mode)
            THEN IF c = 32 /\ mode = "encodeQueryComponent" THEN <<43>>
                 ELSE <<37, upperhex(c \div 16), upperhex(c % 16)>>
            ELSE <<c>>)
           \o escape(From(s, 2), mode)

QueryUnescape(s) == unescape(s, "encodeQueryComponent")

QueryEscape(s) == escape(s, "encodeQueryComponent")

\* The keys of a map in increasing order, as Values.Encode sorts them.
SortedKeys(K) ==
  CHOOSE p \in Perms(K) : \A i, j \in 1..Cardinality(K) : i < j => StrLess(p[i], p[j])

\* url.Values.Encode() of a Values in which every key has one value (all
\* that Values.Set leaves): vals maps a key to that value.
RECURSIVE EncodeKeys(_, _, _)
EncodeKeys(vals, keys, i) ==
  IF i > Len(keys) THEN <<>>
  ELSE (IF i > 1 THEN <<38>> ELSE <<>>)
       \o QueryEscape(keys[i]) \o <<61>> \o QueryEscape(vals[keys[i]])
       \o EncodeKeys(vals, keys, i + 1)

ValuesEncode(vals) == EncodeKeys(vals, SortedKeys(DOMAIN vals), 1)

\* The zero url.URL.
ZeroURL ==
  [Host |-> <<>>, Path |-> <<>>, RawPath |-> <<>>, ForceQuery |-> FALSE,
   RawQuery |-> <<>>, Fragment |-> <<>>, RawFragment |-> <<>>]

UrlError(e) == [type |-> "*url.Error", text |-> e.text]

\* URL.setPath and URL.setFragment: the decoded and the raw form of a part.
\* raw is kept only when it is not the default encoding of the decoded form.
setPart(p, mode) ==
  LET d == unescape(p, mode)
  IN  IF d.err # Nil THEN [err |-> d.err, dec |-> <<>>, raw |-> <<>>]
      ELSE [err |-> Nil, dec |-> d.s,
            raw |-> IF escape(d.s, mode) = p THEN <<>> ELSE p]

\* url.parse, the end: the URL made of the parsed parts, or the error of
\* the host or of the path.
parsedURL(host, path, force, rawQuery) ==
  IF host.err # Nil THEN [err |-> <<UrlError(host.err[1])>>, url |-> ZeroURL]
  ELSE IF path.err # Nil THEN [err |-> <<UrlError(path.err[1])>>, url |-> ZeroURL]
  ELSE [err |-> Nil,
        url |-> [ZeroURL EXCEPT !.Host = host.s, !.Path = path.dec, !.RawPath = path.raw,
                                !.ForceQuery = force, !.RawQuery = rawQuery]]

\* url.parse, the authority: authority is what follows the leading "//", sl
\* the index of its first '/' (0 for none); the host ends there and the
\* path begins.
parseAuthority(authority, sl, force, rawQuery) ==
  parsedURL(unescape(IF sl = 0 THEN authority ELSE SubSeq(authority, 1, sl - 1), "encodeHost"),
            setPart(IF sl = 0 THEN <<>> ELSE From(authority, sl), "encodePath"),
            force, rawQuery)

\* url.parse, after the query is cut off: rest begins with an authority when
\* it begins with "//" and not with "///".
parseRest(rest, force, rawQuery) ==
  IF Len(rest) >= 2 /\ rest[1] = 47 /\ rest[2] = 47 /\ ~(Len(rest) >= 3 /\ rest[3] = 47)
  THEN parseAuthority(From(rest, 3), IndexByte(From(rest, 3), 47), force, rawQuery)
  ELSE parsedURL([err |-> Nil, s |-> <<>>], setPart(rest, "encodePath"), force, rawQuery)

\* url.parse, the query: q is the index of the first '?' (0 for none).  A
\* '?' that ends the URL sets ForceQuery.
parseQuery(rawURL, q) ==
  parseRest(IF q = 0 THEN rawURL ELSE SubSeq(rawURL, 1, q - 1),
            q > 0 /\ q = Len(rawURL),
            IF q = 0 THEN <<>> ELSE From(rawURL, q + 1))

\* url.parse(rawURL, viaRequest = false) for a rawURL without '#'.  The
\* rawURL begins with '/' or '?' (a path of the load balancer, or an empty
\* one, before the query), so getScheme finds no scheme.
parse(rawURL) ==
  IF \E i \in 1..Len(rawURL) : rawURL[i] < 32 \/ rawURL[i] = 127
  THEN [err |-> <<[type |-> "*url.Error", text |-> <<>>]>>, url |-> ZeroURL]
  ELSE parseQuery(rawURL, IndexByte(rawURL, 63))

\* url.Parse, the fragment: p is the URL parsed without it, f the fragment
\* as setFragment decodes it.
setFragment(p, f) ==
  IF f.err # Nil THEN [err |-> <<UrlError(f.err[1])>>, url |-> ZeroURL]
  ELSE [err |-> Nil, url |-> [p.url EXCEPT !.Fragment = f.dec, !.RawFragment = f.raw]]

\* url.Parse after the cut at '#': h is the index of the first '#' (0 for
\* none), p the parse of what precedes it.
parseFragment(rawURL, h, p) ==
  IF p.err # Nil \/ h = 0 \/ h = Len(rawURL) THEN p
  ELSE setFragment(p, setPart(From(rawURL, h + 1), "encodeFragment"))

\* url.Parse(rawURL): cut the fragment, parse the rest, set the fragment.
cutFragment(rawURL, h) ==
  parseFragment(rawURL, h, parse(IF h = 0 THEN rawURL ELSE SubSeq(rawURL, 1, h - 1)))

Parse(rawURL) == cutFragment(rawURL, IndexByte(rawURL, 35))

(***************************************************************************)
(* net/http and net/http/httptest                                          *)
(***************************************************************************)

\* textproto.validHeaderFieldByte: the bytes of an RFC 7230 token.
validHeaderFieldByte(c) ==
  isAlnum(c) \/ c \in {33, 35, 36, 37, 38, 39, 42, 43, 45, 46, 94, 95, 96, 124, 126}

\* The letter case canonicalMIMEHeaderKey gives byte i of a valid key: upper
\* case at the start and after '-', lower case elsewhere.
canonicalByte(s, i) ==
  LET upper == i = 1 \/ s[i - 1] = 45
      c == s[i]
  IN  IF upper /\ 97 <= c /\ c <= 122 THEN c - 32
      ELSE IF ~upper /\ 65 <= c /\ c <= 90 THEN c + 32
      ELSE c

\* textproto.CanonicalMIMEHeaderKey(s): a key with a byte that is no token
\* byte is returned as it is.
CanonicalMIMEHeaderKey(s) ==
  IF \E i \in 1..Len(s) : ~validHeaderFieldByte(s[i]) THEN s
  ELSE [i \in 1..Len(s) |-> canonicalByte(s, i)]

\* HeaderSet with Add in place of Set: the value is appended.
HeaderAdd(h, key, value) ==
  LET k == CanonicalMIMEHeaderKey(key)
  IN  [x \in (DOMAIN h) \cup {k} |->
         IF x = k THEN (IF k \in DOMAIN h THEN Append(h[k], value) ELSE <<value>>) ELSE h[x]]

\* http.Header.Set(key, value) on header h, a function from keys to value lists.
HeaderSet(h, key, value) ==
  LET k == CanonicalMIMEHeaderKey(key)
  IN  [x \in (DOMAIN h) \cup {k} |-> IF x = k THEN <<value>> ELSE h[x]]

\* http.Header.Get(key).
HeaderGet(h, key) ==
  LET k == CanonicalMIMEHeaderKey(key)
  IN  IF k \in DOMAIN h /\ Len(h[k]) > 0 THEN h[k][1] ELSE ""

\* http.StatusText for the codes the model's handler writes.
StatusText(code) ==
  CASE code = 200 -> "OK" [] code = 404 -> "Not Found" [] code = 500 -> "Internal Server Error"

\* The fmt.Sprintf("%03d %s", code, StatusText(code)) of ResponseRecorder.Result.
StatusLine(code) == ToString(code) \o " " \o StatusText(code)

\* The header names ResponseRecorder looks up.
ContentType == Str(<<"C", "o", "n", "t", "e", "n", "t", "-", "T", "y", "p", "e">>)
TransferEncoding ==
  Str(<<"T", "r", "a", "n", "s", "f", "e", "r", "-", "E", "n", "c", "o", "d", "i", "n", "g">>)

\* The bytes textSig takes for binary data.
binaryByte(b) == b <= 8 \/ b = 11 \/ (14 <= b /\ b <= 26) \/ (28 <= b /\ b <= 31)

\* The white space DetectContentType skips before it looks for text.
isWS(b) == b \in {9, 10, 12, 13, 32}

\* textSig.match: data[firstNonWS:] has no binary byte.
RECURSIVE textSig(_)
textSig(data) ==
  IF Len(data) = 0 THEN TRUE
  ELSE IF isWS(data[1]) THEN textSig(From(data, 2))
  ELSE \A i \in 1..Len(data) : ~binaryByte(data[i])

\* http.DetectContentType(data) for the data the model's handler writes first.
\* Of sniffSignatures, the three byte order marks (masked signatures of four
\* bytes), textSig and the fallback are here; every other signature begins
\* with a byte with which no element of Chunks begins, or needs more bytes
\* than a chunk has.
DetectContentType(data) ==
  IF Len(data) >= 4 /\ data[1] = 254 /\ data[2] = 255 THEN "text/plain; charset=utf-16be"
  ELSE IF Len(data) >= 4 /\ data[1] = 255 /\ data[2] = 254 THEN "text/plain; charset=utf-16le"
  ELSE IF Len(data) >= 4 /\ data[1] = 239 /\ data[2] = 187 /\ data[3] = 191
       THEN "text/plain; charset=utf-8"
  ELSE IF textSig(data) THEN "text/plain; charset=utf-8"
  ELSE "application/octet-stream"

\* httptest.NewRecorder(): an empty header map, no snapshot of it yet.
NewRecorder ==
  [Code |-> 200, wroteHeader |-> FALSE, Body |-> <<>>, HeaderMap |-> <<>>, snapHeader |-> Nil]

\* ResponseRecorder.WriteHeader(code): only the first call counts; it keeps
\* a copy of the header map as it is then.
WriteHeader(rw, code) ==
  IF rw.wroteHeader THEN rw
  ELSE [rw EXCEPT !.Code = code, !.wroteHeader = TRUE, !.snapHeader = <<rw.HeaderMap>>]

\* ResponseRecorder.writeHeader(b, ""): before the first write, a response
\* with no Content-Type and no Transfer-Encoding gets the sniffed type; then
\* WriteHeader(200).
writeHeader(rw, b) ==
  IF rw.wroteHeader THEN rw
  ELSE IF ContentType \notin DOMAIN rw.HeaderMap /\ HeaderGet(rw.HeaderMap, TransferEncoding) = ""
  THEN WriteHeader([rw EXCEPT !.HeaderMap = HeaderSet(@, ContentType, DetectContentType(b))], 200)
  ELSE WriteHeader(rw, 200)

\* ResponseRecorder.Write(buf): writeHeader(buf, ""), then the bytes.
Write(rw, buf) ==
  [writeHeader(rw, buf) EXCEPT !.Body = @ \o buf]

\* ResponseRecorder.Result(), the fields Run reads: the code and its status
\* line, and the header map as it was at the first write (as it is now when
\* nothing was written).
Result(rw) ==
  [StatusCode |-> rw.Code, Status |-> StatusLine(rw.Code),
   Header |-> IF rw.snapHeader = Nil THEN rw.HeaderMap ELSE rw.snapHeader[1]]

\* strings.Join(vv, sep).
RECURSIVE Join(_, _)
Join(vv, sep) ==
  IF Len(vv) = 0 THEN ""
  ELSE IF Len(vv) = 1 THEN vv[1]
  ELSE vv[1] \o sep \o Join(Tail(vv), sep)

(***************************************************************************)
(* package alb                                                             *)
(***************************************************************************)

\* The two sources of lambdaHandler.Run.
Impls == {"alb.go", "part_000"}

\* Run of src/alb.go, the URL: the path is stored as given, every query
\* value is unescaped and the query re-encoded.  order is the order in
\* which the range statement visits the keys of query.
RECURSIVE unescapeValues(_, _, _)
unescapeValues(query, order, i) ==
  IF i > Len(order) THEN Nil
  ELSE LET v2 == QueryUnescape(query[order[i]])
       IN  IF v2.err # Nil THEN v2.err ELSE unescapeValues(query, order, i + 1)

RunURL(path, query, order) ==
  LET e == unescapeValues(query, order, 1)
      vals == [k \in DOMAIN query |-> QueryUnescape(query[k]).s]
  IN  IF Cardinality(DOMAIN query) = 0
      THEN [err |-> Nil, url |-> [ZeroURL EXCEPT !.Path = path]]
      ELSE IF e # Nil THEN [err |-> e, url |-> ZeroURL]
      ELSE [err |-> Nil, url |-> [ZeroURL EXCEPT !.Path = path, !.RawQuery = ValuesEncode(vals)]]

\* buildURL of src/unnamed/part_000: the string path?k=v&k=v... in the order
\* of the range statement, parsed once.
RECURSIVE joinQuery(_, _, _)
joinQuery(query, order, i) ==
  IF i > Len(order) THEN <<>>
  ELSE (IF i > 1 THEN <<38>> ELSE <<>>)
       \o order[i] \o <<61>> \o query[order[i]]
       \o joinQuery(query, order, i + 1)

\* buildURL without the test for an empty query: the '?' is always written.
buildURLAlwaysQuery(path, query, order) ==
  Parse(path \o <<63>> \o joinQuery(query, order, 1))

buildURL(path, query, order) ==
  IF Cardinality(DOMAIN query) = 0 THEN Parse(path)
  ELSE Parse(path \o <<63>> \o joinQuery(query, order, 1))

\* Run, the header loop: headers.Set(k, v) for each inbound header, in the
\* order of the range statement.
RECURSIVE setHeaders(_, _, _, _)
setHeaders(h, headers, order, i) ==
  IF i > Len(order) THEN h
  ELSE setHeaders(HeaderSet(h, order[i], headers[order[i]]), headers, order, i + 1)

\* RunBody with the decode error dropped: the handler gets an empty body.
RunBodyIgnoreError(body, encoded) ==
  IF encoded
  THEN LET b == DecodeString(body)
       IN  [err |-> Nil, Body |-> b.bytes, ContentLength |-> Len(b.bytes)]
  ELSE [err |-> Nil, Body |-> body, ContentLength |-> Len(body)]

\* RunBody with the content length taken from the body string in both cases.
RunBodyRawLength(body, encoded) ==
  IF encoded
  THEN LET b == DecodeString(body)
       IN  IF b.err # ""
           THEN [err |-> <<[type |-> b.err, text |-> <<>>]>>, Body |-> <<>>, ContentLength |-> 0]
           ELSE [err |-> Nil, Body |-> b.bytes, ContentLength |-> Len(body)]
  ELSE [err |-> Nil, Body |-> body, ContentLength |-> Len(body)]

\* Run, the switch on req.BodyEncoded: the body stream and its length.
RunBody(body, encoded) ==
  IF encoded
  THEN LET b == DecodeString(body)
       IN  IF b.err # ""
           THEN [err |-> <<[type |-> b.err, text |-> <<>>]>>, Body |-> <<>>, ContentLength |-> 0]
           ELSE [err |-> Nil, Body |-> b.bytes, ContentLength |-> Len(b.bytes)]
  ELSE [err |-> Nil, Body |-> body, ContentLength |-> Len(body)]

\* Run, the request: the error of the URL or of the body, or the request
\* made of the decoded parts.
newRequest(c, e, u, headers, b) ==
  IF u.err # Nil THEN [err |-> u.err, r |-> Nil]
  ELSE IF b.err # Nil THEN [err |-> b.err, r |-> Nil]
  ELSE [err |-> Nil,
        r |-> <<[ProtoMajor |-> 1, ProtoMinor |-> 1, Proto |-> "HTTP/1.1",
                 Method |-> e.Method, URL |-> u.url, Header |-> headers,
                 Host |-> HeaderGet(headers, Str(<<"H", "o", "s", "t">>)),
                 ctx |-> c, Body |-> b.Body, ContentLength |-> b.ContentLength]>>]

\* Run up to the call of the handler: the error it returns, or the request
\* it hands to ServeHTTP.
RunRequest(i, c, e, qorder, horder) ==
  newRequest(c, e,
             IF i = "alb.go" THEN RunURL(e.Path, e.Query, qorder)
             ELSE buildURL(e.Path, e.Query, qorder),
             setHeaders(<<>>, e.Headers, horder, 1),
             RunBody(e.Body, e.BodyEncoded))

\* Run, the loop over res.Header: every header with its values joined by ",".
joinHeaders(h) == [k \in DOMAIN h |-> Join(h[k], ",")]

\* RunResponse without the UTF-8 check: the body always goes out as text.
RunResponseText(rw) ==
  [StatusCode |-> Result(rw).StatusCode, Status |-> Result(rw).Status,
   Headers |-> joinHeaders(Result(rw).Header),
   Body |-> rw.Body, BodyEncoded |-> FALSE]

\* Run after the handler has returned: the envelope built from the recorder.
RunResponse(rw) ==
  IF utf8Valid(rw.Body)
  THEN [StatusCode |-> Result(rw).StatusCode, Status |-> Result(rw).Status,
        Headers |-> joinHeaders(Result(rw).Header),
        Body |-> rw.Body, BodyEncoded |-> FALSE]
  ELSE [StatusCode |-> Result(rw).StatusCode, Status |-> Result(rw).Status,
        Headers |-> joinHeaders(Result(rw).Header),
        Body |-> EncodeToString(rw.Body), BodyEncoded |-> TRUE]

(***************************************************************************)
(* The invocations the model makes                                         *)
(***************************************************************************)

\* Longest inbound body, in bytes.
MaxBodyLen == 4
\* Longest query value, in bytes.
MaxValLen == 3
\* Longest inbound path after its leading '/', in bytes.
MaxPathLen == 3
\* Most calls of Write a handler makes in one invocation.
MaxWrites == 1

\* Body bytes: a base64 digit, the padding, a line break the decoder skips
\* and a byte outside the base64 alphabet.
BodyChars == {Ord("Q"), Ord("="), Ord("\n"), Ord("!")}
\* Query value bytes: a hex digit and the escape character.
ValChars == {Ord("a"), Ord("%")}
\* Path bytes.
PathChars == {Ord("/"), Ord("a"), Ord("%"), Ord("?")}

Bodies == SeqsUpTo(BodyChars, MaxBodyLen)
Vals == SeqsUpTo(ValChars, MaxValLen)
Paths == {<<Ord("/")>> \o s : s \in SeqsUpTo(PathChars, MaxPathLen)}

\* Query parameter names: a plain one and an escaped one.
QueryNames == {Str(<<"a">>), Str(<<"%", "a", "a">>)}
\* Every query map over QueryNames.
Queries == UNION {[K -> Vals] : K \in SUBSET QueryNames}

\* Header names, two of which differ in letter case only, and header values.
HeaderNames == {Str(<<"h", "o", "s", "t">>), Str(<<"H", "o", "s", "t">>), Str(<<"x", "-", "a">>)}
HeaderVals == {"h1", "h2"}
HeaderMaps == UNION {[K -> HeaderVals] : K \in SUBSET HeaderNames}

Methods == {"GET", "POST"}
Contexts == {"ctx1", "ctx2"}

\* The chunks a handler writes: "A", the first byte of U+00E9 without the
\* second, U+20AC, and four bytes that are not UTF-8.
Chunks == {<<65>>, <<195>>, <<226, 130, 172>>, <<255, 254, 0, 1>>}
\* The status codes a handler writes.
Codes == {200, 404}
\* The response header a handler sets, with two values.
ResponseHeaders == {<<ContentType, <<"text/html", "charset=utf-8">>>>}

BaseEvent ==
  [Method |-> "GET", Path |-> Str(<<"/", "a">>), Query |-> <<>>,
   Headers |-> [k \in {Str(<<"h", "o", "s", "t">>)} |-> "h1"],
   Body |-> <<>>, BodyEncoded |-> FALSE]

\* A URL both implementations reject: a bad escape in the path and in a value.
BadURLEvent ==
  [BaseEvent EXCEPT !.Path = Str(<<"/", "%">>),
                    !.Query = [k \in {Str(<<"a">>)} |-> Str(<<"%">>)]]

\* The inbound events: each family varies one part of the event over all its
\* values and takes the rest from a few fixed ones.
BodyEvents ==
  {[b EXCEPT !.Body = s, !.BodyEncoded = enc] :
     b \in {BaseEvent, BadURLEvent}, s \in Bodies, enc \in BOOLEAN}
QueryEvents ==
  {[BaseEvent EXCEPT !.Query = q, !.Body = s[1], !.BodyEncoded = s[2]] :
     q \in Queries, s \in {<<<<>>, FALSE>>, <<Str(<<"!">>), TRUE>>}}
PathEvents ==
  {[BaseEvent EXCEPT !.Path = p, !.Query = q] :
     p \in Paths, q \in {<<>>, [k \in {Str(<<"a">>)} |-> Str(<<"a">>)]}}
HeaderEvents ==
  {[BaseEvent EXCEPT !.Headers = h, !.Method = m] : h \in HeaderMaps, m \in Methods}

Events == BodyEvents \cup QueryEvents \cup PathEvents \cup HeaderEvents

\* The calls of Run: every event under one context, the header events under
\* each context.
Calls == ({"ctx1"} \X Events) \cup (Contexts \X HeaderEvents)

(***************************************************************************)
(* One invocation at a time: Run decodes the event and calls the handler,  *)
(* the handler writes to the recorder and returns or panics, Run encodes   *)
(* the recorder.  Invocations share no state.                              *)
(***************************************************************************)

VARIABLES
  pc,        \* "idle", "serving" (inside ServeHTTP), "returned" or "panicked"
  impl,      \* the implementation of Run the invocation runs
  ctx,       \* the context Run was called with
  req,       \* the event Run was called with
  r,         \* the request handed to the handler, Nil before that
  recorder,  \* the httptest.ResponseRecorder of the invocation
  writes,    \* the number of calls of Write the handler has made
  served,    \* the number of calls of ServeHTTP in this invocation
  out,       \* the envelope Run returned, Nil for none
  err        \* the error Run returned, Nil for none

vars == <<pc, impl, ctx, req, r, recorder, writes, served, out, err>>

Init ==
  /\ pc = "idle"
  /\ impl = "alb.go"
  /\ ctx = "ctx1"
  /\ req = BaseEvent
  /\ r = Nil
  /\ recorder = NewRecorder
  /\ writes = 0
  /\ served = 0
  /\ out = Nil
  /\ err = Nil

\* Called with the handler called before the event is decoded: ServeHTTP
\* runs although Run goes on to return the decode error.
CalledServeFirst(i, c, e, d) ==
  /\ impl' = i
  /\ ctx' = c
  /\ req' = e
  /\ r' = d.r
  /\ err' = d.err
  /\ out' = Nil
  /\ recorder' = NewRecorder
  /\ writes' = 0
  /\ served' = 1
  /\ pc' = IF d.err = Nil THEN "serving" ELSE "returned"

\* Run as far as d, the outcome of decoding: it returns d's error, or calls
\* h.handler.ServeHTTP(recorder, r) with d's request.
Called(i, c, e, d) ==
  /\ impl' = i
  /\ ctx' = c
  /\ req' = e
  /\ r' = d.r
  /\ err' = d.err
  /\ out' = Nil
  /\ recorder' = NewRecorder
  /\ writes' = 0
  /\ served' = IF d.err = Nil THEN 1 ELSE 0
  /\ pc' = IF d.err = Nil THEN "serving" ELSE "returned"

\* Run(c, e) of implementation i up to and including the call
\* h.handler.ServeHTTP(recorder, r); the range statements visit the query
\* in the order qorder and the headers in the order horder.
Invoke(i, c, e, qorder, horder) ==
  Called(i, c, e, RunRequest(i, c, e, qorder, horder))

\* The host runtime calls Run.
Run ==
  /\ pc = "idle"
  /\ \E i \in Impls, call \in Calls :
       \E qorder \in Perms(DOMAIN call[2].Query), horder \in Perms(DOMAIN call[2].Headers) :
         Invoke(i, call[1], call[2], qorder, horder)

\* The handler assigns w.Header()[k] = vv.
HandlerSetHeader(k, vv) ==
  /\ pc = "serving"
  /\ recorder' = [recorder EXCEPT !.HeaderMap = [x \in (DOMAIN @) \cup {k} |-> IF x = k THEN vv ELSE @[x]]]
  /\ UNCHANGED <<pc, impl, ctx, req, r, writes, served, out, err>>

\* The handler calls w.WriteHeader(code).
HandlerWriteHeader(code) ==
  /\ pc = "serving"
  /\ recorder' = WriteHeader(recorder, code)
  /\ UNCHANGED <<pc, impl, ctx, req, r, writes, served, out, err>>

\* The handler calls w.Write(buf).
HandlerWrite(buf) ==
  /\ pc = "serving"
  /\ writes < MaxWrites
  /\ recorder' = Write(recorder, buf)
  /\ writes' = writes + 1
  /\ UNCHANGED <<pc, impl, ctx, req, r, served, out, err>>

\* HandlerReturn with an error returned beside the envelope.
HandlerReturnWithError ==
  /\ pc = "serving"
  /\ out' = <<RunResponse(recorder)>>
  /\ err' = <<[type |-> "error", text |-> <<>>]>>
  /\ pc' = "returned"
  /\ UNCHANGED <<impl, ctx, req, r, recorder, writes, served>>

\* ServeHTTP returns and Run builds and returns the envelope.
HandlerReturn ==
  /\ pc = "serving"
  /\ out' = <<RunResponse(recorder)>>
  /\ pc' = "returned"
  /\ UNCHANGED <<impl, ctx, req, r, recorder, writes, served, err>>

\* ServeHTTP panics: Run recovers nothing, the panic leaves Run, and what
\* the handler wrote to the recorder goes with Run's frame.
HandlerPanic ==
  /\ pc = "serving"
  /\ pc' = "panicked"
  /\ recorder' = NewRecorder
  /\ writes' = 0
  /\ UNCHANGED <<impl, ctx, req, r, served, out, err>>

\* The host runtime takes the outcome; the next invocation starts afresh.
Finish ==
  /\ pc \in {"returned", "panicked"}
  /\ pc' = "idle"
  /\ impl' = "alb.go"
  /\ ctx' = "ctx1"
  /\ req' = BaseEvent
  /\ r' = Nil
  /\ recorder' = NewRecorder
  /\ writes' = 0
  /\ served' = 0
  /\ out' = Nil
  /\ err' = Nil

Next ==
  \/ Run
  \/ \E h \in ResponseHeaders : HandlerSetHeader(h[1], h[2])
  \/ \E code \in Codes : HandlerWriteHeader(code)
  \/ \E buf \in Chunks : HandlerWrite(buf)
  \/ HandlerReturn
  \/ HandlerPanic
  \/ Finish

Spec == Init /\ [][Next]_vars

(***************************************************************************)
(* Notions the properties are stated in, defined from the standards and    *)
(* not from the library code above.                                        *)
(***************************************************************************)

Continuation(b) == 128 <= b /\ b <= 191

\* u is the UTF-8 encoding of one Unicode scalar value (RFC 3629): the
\* shortest form, no surrogate, nothing above U+10FFFF.
EncodesScalar(u) ==
  LET cp2 == (u[1] - 192) * 64 + (u[2] - 128)
      cp3 == (u[1] - 224) * 4096 + (u[2] - 128) * 64 + (u[3] - 128)
      cp4 == (u[1] - 240) * 262144 + (u[2] - 128) * 4096 + (u[3] - 128) * 64 + (u[4] - 128)
  IN  \/ Len(u) = 1 /\ u[1] < 128
      \/ Len(u) = 2 /\ 192 <= u[1] /\ u[1] <= 223 /\ Continuation(u[2]) /\ cp2 >= 128
      \/ Len(u) = 3 /\ 224 <= u[1] /\ u[1] <= 239 /\ Continuation(u[2]) /\ Continuation(u[3])
           /\ cp3 >= 2048 /\ ~(55296 <= cp3 /\ cp3 <= 57343)
      \/ Len(u) = 4 /\ 240 <= u[1] /\ u[1] <= 247 /\ Continuation(u[2]) /\ Continuation(u[3])
           /\ Continuation(u[4]) /\ cp4 >= 65536 /\ cp4 <= 1114111

\* b is a sequence of UTF-8 encoded scalar values.
RECURSIVE IsUTF8(_)
IsUTF8(b) ==
  \/ b = <<>>
  \/ \E n \in 1..(IF Len(b) < 4 THEN Len(b) ELSE 4) :
       EncodesScalar(SubSeq(b, 1, n)) /\ IsUTF8(From(b, n + 1))

Pow2(n) == IF n = 0 THEN 1 ELSE IF n = 1 THEN 2 ELSE IF n = 2 THEN 4 ELSE IF n = 3 THEN 8
           ELSE IF n = 4 THEN 16 ELSE IF n = 5 THEN 32 ELSE IF n = 6 THEN 64 ELSE 128

IsBase64Digit(c) == isAlnum(c) \/ c = 43 \/ c = 47

\* The value of a base64 digit (RFC 4648, table 1): A-Z are 0-25, a-z are
\* 26-51, 0-9 are 52-61, '+' is 62 and '/' is 63.
DigitValue(c) ==
  IF 65 <= c /\ c <= 90 THEN c - 65
  ELSE IF 97 <= c /\ c <= 122 THEN c - 71
  ELSE IF 48 <= c /\ c <= 57 THEN c + 4
  ELSE IF c = 43 THEN 62 ELSE 63

\* Bit k (from 0, most significant first) of the bytes b and of the base64
\* digits t (RFC 4648: 8 bits a byte, 6 bits a digit).
ByteBit(b, k) == (b[(k \div 8) + 1] \div Pow2(7 - (k % 8))) % 2
DigitBit(t, k) == (DigitValue(t[(k \div 6) + 1]) \div Pow2(5 - (k % 6))) % 2

\* t is padded base64 text for the bytes b: one digit for every 6 bits
\* begun, '=' up to a multiple of four characters, and the bits of b in
\* the digits.
Base64Represents(t, b) ==
  LET n == (8 * Len(b) + 5) \div 6
  IN  /\ Len(t) = 4 * ((Len(b) + 2) \div 3)
      /\ \A m \in 1..Len(t) : IF m <= n THEN IsBase64Digit(t[m]) ELSE t[m] = 61
      /\ \A k \in 0..(8 * Len(b) - 1) : ByteBit(b, k) = DigitBit(t, k)

\* t is the base64 encoding of b: it represents b and its spare bits are 0.
IsBase64Of(t, b) ==
  /\ Base64Represents(t, b)
  /\ \A k \in (8 * Len(b))..(6 * ((8 * Len(b) + 5) \div 6) - 1) : DigitBit(t, k) = 0

IsNewline(c) == c = 10 \/ c = 13
NotNewline(c) == ~IsNewline(c)

\* s without the line breaks a base64 decoder skips.
StripNewlines(s) == SelectSeq(s, NotNewline)

\* s is padded standard base64 text, line breaks aside: digits in groups of
\* four, the last group ending in at most two '='.
ValidStdBase64(s) ==
  LET t == StripNewlines(s)
  IN  /\ Len(t) % 4 = 0
      /\ \A m \in 1..Len(t) :
           \/ IsBase64Digit(t[m])
           \/ t[m] = 61 /\ m = Len(t)
           \/ t[m] = 61 /\ m = Len(t) - 1 /\ t[Len(t)] = 61

\* s has a '%' that two hexadecimal digits do not follow.
MalformedEscape(s) ==
  \E m \in 1..Len(s) :
    s[m] = 37 /\ ~(m + 2 <= Len(s) /\ ishex(s[m + 1]) /\ ishex(s[m + 2]))

\* s is a correctly escaped query name or value: unreserved bytes, '+' and
\* well-formed escapes only.
CorrectlyEscaped(s) ==
  /\ ~MalformedEscape(s)
  /\ \A m \in 1..Len(s) : isAlnum(s[m]) \/ s[m] \in {37, 43, 45, 46, 95, 126}

\* s split at every byte c.
RECURSIVE Split(_, _)
Split(s, c) ==
  IF IndexByte(s, c) = 0 THEN <<s>>
  ELSE <<SubSeq(s, 1, IndexByte(s, c) - 1)>> \o Split(From(s, IndexByte(s, c) + 1), c)

Range(f) == {f[x] : x \in DOMAIN f}

FoldByte(c) == IF 65 <= c /\ c <= 90 THEN c + 32 ELSE c

\* The names a and b differ in letter case at most.
EqualFold(a, b) == Len(a) = Len(b) /\ \A m \in 1..Len(a) : FoldByte(a[m]) = FoldByte(b[m])

HostName == Str(<<"h", "o", "s", "t">>)

\* A path in which '?' and '#' occur escaped only, as the load balancer
\* sends it.
NoRawDelimiter(p) == \A m \in 1..Len(p) : p[m] \notin {35, 63}

\* A path with no escape, no '?' and no '#' that does not begin with "//".
PlainPath(p) ==
  /\ \A m \in 1..Len(p) : p[m] \notin {35, 37, 63}
  /\ ~(Len(p) >= 2 /\ p[1] = 47 /\ p[2] = 47 /\ ~(Len(p) >= 3 /\ p[3] = 47))

\* ServeHTTP has been given a request in this invocation.
Handed == pc # "idle" /\ r # Nil

\* Run has returned an envelope.
Enveloped == pc = "returned" /\ out # Nil

(***************************************************************************)
(* Properties                                                              *)
(***************************************************************************)

\* C1: whenever Run returns an envelope, its isBase64Encoded flag is true
\* exactly when the bytes the handler wrote are not valid UTF-8; with the
\* flag false the body is those bytes, with the flag true it is their
\* standard base64 encoding.
C1_BinaryIffNotUTF8 ==
  Enveloped =>
    /\ out[1].BodyEncoded <=> ~IsUTF8(recorder.Body)
    /\ ~out[1].BodyEncoded => out[1].Body = recorder.Body
    /\ out[1].BodyEncoded => IsBase64Of(out[1].Body, recorder.Body)

\* C1 witness: an envelope was returned for a body that is not UTF-8.
C1_Witness == Enveloped /\ out[1].BodyEncoded /\ Len(recorder.Body) > 0

\* C2 as stated: every invocation that has ended, by return or by the
\* handler's panic, has ended with an envelope and no error or with an error
\* and no envelope.
C2_Original ==
  pc \in {"returned", "panicked"} =>
    \/ out # Nil /\ err = Nil
    \/ out = Nil /\ err # Nil

\* C2 as amended: every invocation of Run that returns has returned an
\* envelope and a nil error, or no envelope and an error; an invocation
\* whose handler panics returns nothing.
C2_ReturnsOneOutcome ==
  /\ pc = "returned" => (out # Nil /\ err = Nil) \/ (out = Nil /\ err # Nil)
  /\ pc = "panicked" => out = Nil /\ err = Nil

\* C2 witness: Run returned an error and no envelope.
C2_Witness == pc = "returned" /\ err # Nil /\ out = Nil

\* The URL step of Run fails on the event.
URLFails ==
  \A qorder \in Perms(DOMAIN req.Query) :
    (IF impl = "alb.go" THEN RunURL(req.Path, req.Query, qorder)
     ELSE buildURL(req.Path, req.Query, qorder)).err # Nil

\* C3: an event flagged base64 whose body is not valid standard base64 makes
\* Run return an error and no envelope without calling ServeHTTP; the error
\* is the base64 decode error unless the URL was rejected first.
C3_BadBase64Aborts ==
  (pc # "idle" /\ req.BodyEncoded /\ ~ValidStdBase64(req.Body)) =>
    /\ pc = "returned"
    /\ err # Nil /\ out = Nil
    /\ served = 0 /\ r = Nil
    /\ ~URLFails => err[1].type = "base64.CorruptInputError"

\* C3 witness: Run returned the base64 decode error.
C3_Witness ==
  /\ pc = "returned" /\ req.BodyEncoded /\ ~ValidStdBase64(req.Body)
  /\ err # Nil /\ err[1].type = "base64.CorruptInputError"

\* C4: an event with a query value holding a malformed percent escape makes
\* Run return an error and no envelope without calling the handler.
C4_BadEscapeAborts ==
  (pc # "idle" /\ \E k \in DOMAIN req.Query : MalformedEscape(req.Query[k])) =>
    /\ pc = "returned"
    /\ err # Nil /\ out = Nil
    /\ served = 0 /\ r = Nil

\* C5: the body handed to the handler is the bytes of the body string when
\* the event is not flagged base64 and the bytes its base64 text represents
\* when it is, and the content length is the number of those bytes.
C5_RequestBody ==
  Handed =>
    /\ ~req.BodyEncoded => r[1].Body = req.Body
    /\ req.BodyEncoded => Base64Represents(StripNewlines(req.Body), r[1].Body)
    /\ r[1].ContentLength = Len(r[1].Body)

\* C5 witness: a request whose body was decoded from base64 was handed over.
C5_Witness == Handed /\ req.BodyEncoded /\ Len(r[1].Body) > 0

\* C6: reading a returned envelope the way Run reads an inbound body gives
\* back the bytes the handler wrote; text comes back unflagged, the bytes
\* FF FE 00 01 come back flagged.
C6_ResponseRoundTrip ==
  Enveloped =>
    /\ RunBody(out[1].Body, out[1].BodyEncoded).err = Nil
    /\ RunBody(out[1].Body, out[1].BodyEncoded).Body = recorder.Body
    /\ recorder.Body = <<65>> => ~out[1].BodyEncoded
    /\ recorder.Body = <<255, 254, 0, 1>> => out[1].BodyEncoded

\* C6 witness: an envelope was returned for the bytes FF FE 00 01.
C6_Witness == Enveloped /\ recorder.Body = <<255, 254, 0, 1>>

\* A name=value pair of a raw query, percent-decoded: two spellings of one
\* escape make the same pair.
DecodedPair(pair) ==
  LET eq == IndexByte(pair, 61)
      name == IF eq = 0 THEN pair ELSE SubSeq(pair, 1, eq - 1)
      value == IF eq = 0 THEN <<>> ELSE From(pair, eq + 1)
  IN  <<QueryUnescape(name), QueryUnescape(value)>>

\* C7: for a path sent by the load balancer (no raw '?' or '#') and a
\* non-empty query map of correctly escaped names and values, the raw query
\* of the request URL split on '&' is exactly the name=value pairs of the
\* map, one for each entry, in whatever order the map was visited.
C7_QueryPairs ==
  (/\ Handed
   /\ DOMAIN req.Query # {}
   /\ NoRawDelimiter(req.Path)
   /\ \A k \in DOMAIN req.Query : CorrectlyEscaped(k) /\ CorrectlyEscaped(req.Query[k])) =>
    LET pairs == Split(r[1].URL.RawQuery, 38)
    IN  /\ Len(pairs) = Cardinality(DOMAIN req.Query)
        /\ {DecodedPair(pairs[m]) : m \in 1..Len(pairs)}
             = {DecodedPair(k \o <<61>> \o req.Query[k]) : k \in DOMAIN req.Query}

\* C8 as stated: with an empty query map the request URL has an empty raw
\* query, no trailing '?', and the inbound path as its path, none of it in
\* the host or the fragment (for a path sent by the load balancer: no raw
\* '?' or '#').
C8_Original ==
  (Handed /\ DOMAIN req.Query = {} /\ NoRawDelimiter(req.Path)) =>
    /\ r[1].URL.RawQuery = <<>> /\ ~r[1].URL.ForceQuery
    /\ r[1].URL.Path = req.Path
    /\ r[1].URL.Host = <<>> /\ r[1].URL.Fragment = <<>>

\* C8 as amended: the same, for an inbound path without '%', '?' or '#'
\* that does not begin with "//".
C8_PlainPathUnchanged ==
  (Handed /\ DOMAIN req.Query = {} /\ PlainPath(req.Path)) =>
    /\ r[1].URL.RawQuery = <<>> /\ ~r[1].URL.ForceQuery
    /\ r[1].URL.Path = req.Path
    /\ r[1].URL.Host = <<>> /\ r[1].URL.Fragment = <<>>

\* C8 witness: buildURL parsed a plain path of several segments.
C8_Witness ==
  /\ Handed /\ impl = "part_000" /\ DOMAIN req.Query = {}
  /\ PlainPath(req.Path) /\ req.Path = Str(<<"/", "a", "/", "a">>)

\* C9: ServeHTTP is called once in an invocation that returns an envelope,
\* only after the event decoded without error, with a request that carries
\* the context Run was given; the envelope exists only after ServeHTTP
\* returned.
C9_DecodeServeEncode ==
  /\ served <= 1
  /\ Enveloped => served = 1
  /\ out # Nil => pc = "returned"
  /\ pc = "serving" => served = 1
  /\ served = 1 =>
       /\ r # Nil /\ err = Nil
       /\ r[1].ctx = ctx
       /\ req.BodyEncoded => ValidStdBase64(req.Body)
       /\ r[1].Method = req.Method
  /\ served = 0 => out = Nil

\* C9 witness: an envelope was returned after one call of ServeHTTP that
\* wrote a body.
C9_Witness == Enveloped /\ served = 1 /\ ctx = "ctx2" /\ writes = 1

\* C10 as stated: every inbound header is in the request header under its
\* name, letter case aside, as a single value equal to the inbound string,
\* and the host field is the value of an inbound Host header.
C10_Original ==
  Handed =>
    /\ \A n \in DOMAIN r[1].Header : Len(r[1].Header[n]) = 1
    /\ \A k \in DOMAIN req.Headers :
         \E n \in DOMAIN r[1].Header :
           EqualFold(n, k) /\ r[1].Header[n] = <<req.Headers[k]>>
    /\ \A k \in DOMAIN req.Headers : EqualFold(k, HostName) => r[1].Host = req.Headers[k]

\* The inbound names that differ from k in letter case at most.
FoldClass(k) == {k2 \in DOMAIN req.Headers : EqualFold(k2, k)}

\* C10 as amended: every request header has a single value; inbound names
\* that differ only in letter case share one request header, which holds
\* the value of one of them, so an inbound header whose name no other
\* inbound name matches is there with its own value; the host field is the
\* value of that shared Host header, and empty when there is none.
C10_HeadersSet ==
  Handed =>
    /\ \A n \in DOMAIN r[1].Header :
         /\ Len(r[1].Header[n]) = 1
         /\ \E k \in DOMAIN req.Headers : EqualFold(n, k) /\ r[1].Header[n][1] = req.Headers[k]
    /\ \A n1, n2 \in DOMAIN r[1].Header : EqualFold(n1, n2) => n1 = n2
    /\ \A k \in DOMAIN req.Headers : \E n \in DOMAIN r[1].Header : EqualFold(n, k)
    /\ \A k \in DOMAIN req.Headers :
         FoldClass(k) = {k} =>
           \E n \in DOMAIN r[1].Header : EqualFold(n, k) /\ r[1].Header[n] = <<req.Headers[k]>>
    /\ \A n \in DOMAIN r[1].Header : EqualFold(n, HostName) => r[1].Host = r[1].Header[n][1]
    /\ (\A k \in DOMAIN req.Headers : ~EqualFold(k, HostName)) => r[1].Host = ""

\* C10 witness: a request was built from headers named host and Host with
\* different values.
C10_Witness ==
  /\ Handed
  /\ {Str(<<"h", "o", "s", "t">>), Str(<<"H", "o", "s", "t">>)} \subseteq DOMAIN req.Headers
  /\ req.Headers[Str(<<"h", "o", "s", "t">>)] # req.Headers[Str(<<"H", "o", "s", "t">>)]

====
